---- MODULE Spec2Model ----
(***************************************************************************)
(* A model of the key-value service of src/service: the two storage        *)
(* backends of backends.py (InMemoryKvStore, LocalDiskKvStore) and the     *)
(* request handler of main.py (kv_operation and its error handlers).       *)
(*                                                                         *)
(* A python dict is modelled as the sequence of its <<key, value>> items   *)
(* in insertion order, the backing file as the sequence of pickle opcodes  *)
(* it holds, and every worker thread as a program counter that walks       *)
(* through the statements of the operation it is running.                  *)
(***************************************************************************)
EXTENDS Integers, Sequences, FiniteSets, TLC

\* ------------------------------------------------------------------ bounds
NumThreads == 2        \* worker threads serving requests at the same time
MaxCalls == 3          \* calls one caller issues in one behaviour
MaxConcCalls == 2      \* calls concurrent callers issue in one behaviour

Threads == 1..NumThreads

\* ------------------------------------------------------------------ values
\* python values are written as their repr; None is the python None
None == "None"
Keys == {"foo", "123"}
Strings == {"bar"}
Numbers == {"456"}
Booleans == {"True"}
Values == Strings \cup Numbers \cup Booleans \cup {None}

\* the JSON type of a value, as jsonschema sees it
JsonType(v) ==
    IF v \in Strings THEN "string"
    ELSE IF v \in Numbers THEN "number"
    ELSE IF v \in Booleans THEN "boolean"
    ELSE "null"

\* ------------------------------------------------------------ python dict
\* `key in d`
Contains(d, key) == \E i \in 1..Len(d) : d[i][1] = key

\* `d[key]` for a key that is present
GetItem(d, key) == d[CHOOSE i \in 1..Len(d) : d[i][1] = key][2]

\* mutant: the assignment drops every other entry of d
SetItem_clearing(d, key, value) == <<<<key, value>>>>

\* `d[key] = value`: an existing key keeps its position, a new key goes last
SetItem(d, key, value) ==
    IF Contains(d, key)
    THEN [i \in 1..Len(d) |-> IF d[i][1] = key THEN <<key, value>> ELSE d[i]]
    ELSE Append(d, <<key, value>>)

\* what `d.pop(key)` leaves in d
PopItem(d, key) == SelectSeq(d, LAMBDA e : e[1] # key)

\* the keys of d, and d as a mapping (dict equality ignores the order)
KeySet(d) == {d[i][1] : i \in 1..Len(d)}
AsMap(d) == [k \in KeySet(d) |-> GetItem(d, k)]

\* ----------------------------------------------------------------- pickle
\* pickle.dump(d, f) for a dict d of scalars: the opcodes written to f
RECURSIVE PickleItems(_)
PickleItems(d) ==
    IF d = <<>> THEN <<>>
    ELSE <<d[1][1], d[1][2]>> \o PickleItems(Tail(d))

pickle_dump(d) ==
    <<"PROTO", "EMPTY_DICT">>
    \o (IF d = <<>> THEN <<>> ELSE <<"MARK">> \o PickleItems(d) \o <<"SETITEMS">>)
    \o <<"STOP">>

\* whether the opcodes form one complete pickle of a dict
WellFormed(data) ==
    /\ Len(data) >= 3
    /\ data[1] = "PROTO"
    /\ data[2] = "EMPTY_DICT"
    /\ data[Len(data)] = "STOP"
    /\ \/ Len(data) = 3
       \/ /\ Len(data) >= 7
          /\ (Len(data) - 5) % 2 = 0
          /\ data[3] = "MARK"
          /\ data[Len(data) - 1] = "SETITEMS"

\* the items SETITEMS stores into the dict, first to last
RECURSIVE UnpickleItems(_, _)
UnpickleItems(d, items) ==
    IF Len(items) < 2 THEN d
    ELSE UnpickleItems(SetItem(d, items[1], items[2]), SubSeq(items, 3, Len(items)))

\* mutant: a file that does not decode is read as the empty dict
pickle_load_or_empty(data) ==
    IF ~WellFormed(data) THEN [exc |-> "", kv_store |-> <<>>]
    ELSE [exc |-> "",
          kv_store |-> IF Len(data) = 3 THEN <<>>
                       ELSE UnpickleItems(<<>>, SubSeq(data, 4, Len(data) - 2))]

\* pickle.load(f): the dict, or the exception an incomplete pickle raises
pickle_load(data) ==
    IF data = <<>> THEN [exc |-> "EOFError", kv_store |-> <<>>]
    ELSE IF ~WellFormed(data) THEN [exc |-> "UnpicklingError", kv_store |-> <<>>]
    ELSE [exc |-> "",
          kv_store |-> IF Len(data) = 3 THEN <<>>
                       ELSE UnpickleItems(<<>>, SubSeq(data, 4, Len(data) - 2))]

\* ------------------------------------------------------------- exceptions
\* what a call evaluates to: the exception it raises ("" when it returns)
\* with its arguments, the dict it leaves and the value it returns
Return(d, value) == [exc |-> "", args |-> <<>>, kv_store |-> d, value |-> value]
Raise(exc, args) == [exc |-> exc, args |-> args, kv_store |-> <<>>, value |-> None]

\* KeyConflict(*args): __init__(self, key, old_value, new_value) takes exactly
\* three arguments, any other call raises TypeError instead
KeyConflict(args) ==
    IF Len(args) = 3 THEN Raise("KeyConflict", args) ELSE Raise("TypeError", <<>>)

\* `d[key]` and `d.pop(key)` on a dict: KeyError(key) when the key is absent
KeyError(key) == Raise("KeyError", <<key>>)

\* ------------------------------------------- LocalDiskKvStore static methods
\* each takes the contents of the open file and evaluates to the
\* (kv_store, value) pair it returns or to the exception it raises
\* mutant: _create returns the dict without the new entry
_create_forgets(key, value, open_file) ==
    LET ld == pickle_load(open_file) IN
    IF ld.exc # "" THEN Raise(ld.exc, <<>>)
    ELSE IF Contains(ld.kv_store, key)
         THEN KeyConflict(<<key, GetItem(ld.kv_store, key)>>)
         ELSE Return(ld.kv_store, value)

_create(key, value, open_file) ==
    LET ld == pickle_load(open_file) IN
    IF ld.exc # "" THEN Raise(ld.exc, <<>>)
    ELSE IF Contains(ld.kv_store, key)
         THEN KeyConflict(<<key, GetItem(ld.kv_store, key)>>)
         ELSE Return(SetItem(ld.kv_store, key, value), value)

\* mutant: _replace hands back the new value in place of old_value
_replace_returns_new(key, value, open_file) ==
    LET ld == pickle_load(open_file) IN
    IF ld.exc # "" THEN Raise(ld.exc, <<>>)
    ELSE Return(SetItem(ld.kv_store, key, value), value)

_replace(key, value, open_file) ==
    LET ld == pickle_load(open_file) IN
    IF ld.exc # "" THEN Raise(ld.exc, <<>>)
    ELSE LET old_value == IF ~Contains(ld.kv_store, key) THEN None
                          ELSE GetItem(ld.kv_store, key)
         IN Return(SetItem(ld.kv_store, key, value), old_value)

\* mutant: _delete reads the value with kv_store[key] and pops nothing
_delete_keeps(key, open_file) ==
    LET ld == pickle_load(open_file) IN
    IF ld.exc # "" THEN Raise(ld.exc, <<>>)
    ELSE IF ~Contains(ld.kv_store, key) THEN KeyError(key)
         ELSE Return(ld.kv_store, GetItem(ld.kv_store, key))

_delete(key, open_file) ==
    LET ld == pickle_load(open_file) IN
    IF ld.exc # "" THEN Raise(ld.exc, <<>>)
    ELSE IF ~Contains(ld.kv_store, key) THEN KeyError(key)
         ELSE Return(PopItem(ld.kv_store, key), GetItem(ld.kv_store, key))

\* mutant: _get takes a stored None for a missing key
_get_truthy(key, open_file) ==
    LET ld == pickle_load(open_file) IN
    IF ld.exc # "" THEN Raise(ld.exc, <<>>)
    ELSE IF ~Contains(ld.kv_store, key) \/ GetItem(ld.kv_store, key) = None
         THEN KeyError(key)
         ELSE Return(ld.kv_store, GetItem(ld.kv_store, key))

\* mutant: _get takes the value out of the dict with kv_store.pop(key)
_get_popping(key, open_file) ==
    LET ld == pickle_load(open_file) IN
    IF ld.exc # "" THEN Raise(ld.exc, <<>>)
    ELSE IF ~Contains(ld.kv_store, key) THEN KeyError(key)
         ELSE Return(PopItem(ld.kv_store, key), GetItem(ld.kv_store, key))

_get(key, open_file) ==
    LET ld == pickle_load(open_file) IN
    IF ld.exc # "" THEN Raise(ld.exc, <<>>)
    ELSE IF ~Contains(ld.kv_store, key) THEN KeyError(key)
         ELSE Return(ld.kv_store, GetItem(ld.kv_store, key))

\* the functools.partial that create/replace/delete/get hand to _safe_op
kv_op(op, key, value, open_file) ==
    IF op = "create" THEN _create(key, value, open_file)
    ELSE IF op = "replace" THEN _replace(key, value, open_file)
    ELSE IF op = "delete" THEN _delete(key, open_file)
    ELSE _get(key, open_file)

\* what the public method returns from the value _safe_op hands back:
\* create drops it, the other three return it
MethodReturn(op, value) == IF op = "create" THEN None ELSE value

\* mutant: __init__ writes the pickle of {} without looking for a file
LocalDiskKvStore_init_overwrites(f) == [isfile |-> TRUE, data |-> pickle_dump(<<>>)]

\* mutant: __init__ opens an existing kv_file with 'wb' and writes nothing
LocalDiskKvStore_init_truncates(f) ==
    IF ~f.isfile THEN [isfile |-> TRUE, data |-> pickle_dump(<<>>)]
    ELSE [isfile |-> TRUE, data |-> <<>>]

\* LocalDiskKvStore.__init__: an absent kv_file is created holding the pickle
\* of {}, an existing one is left as it is
LocalDiskKvStore_init(f) ==
    IF ~f.isfile THEN [isfile |-> TRUE, data |-> pickle_dump(<<>>)] ELSE f

\* ------------------------------------------------------------- HTTP layer
NO_ERROR == 1000
KEY_NOT_PRESENT == 3001
CREATE_KEY_ALREADY_PRESENT == 3003
FAILED_TO_PARSE_REQUEST_BODY == 3004
FAILED_TO_VALIDATE_REQUEST_BODY == 3005

BACKENDS == {"in_memory", "local_disk"}
Methods == {"GET", "POST", "PUT", "DELETE"}
Ops == {"create", "replace", "delete", "get"}

\* a request body: whether it parses as JSON, and for a JSON object whether
\* it has a "value" member (value: its content, None for JSON null) and
\* whether it has a member besides "value"
NoBody == [parses |-> FALSE, has_value |-> FALSE, value |-> None, extra |-> FALSE]
Bodies ==
    {NoBody}
    \cup [parses : {TRUE}, has_value : {TRUE}, value : Values, extra : {FALSE}]
    \cup [parses : {TRUE}, has_value : {FALSE}, value : {None}, extra : {FALSE}]
    \cup [parses : {TRUE}, has_value : {TRUE}, value : Strings, extra : {TRUE}]

\* validate(body, REQUEST_SCHEMA): "value", when present, is a string, a
\* number or a boolean, and no other member is allowed; the schema has no
\* "required", so an object without "value" is valid
Validates(body) ==
    /\ ~body.extra
    /\ body.has_value => JsonType(body.value) \in {"string", "number", "boolean"}

\* _read_request_value(): the value of the body or the exception raised
_read_request_value(body) ==
    IF ~body.parses THEN Raise("BadRequest", <<>>)
    ELSE IF ~Validates(body) THEN Raise("ValidationError", <<>>)
    ELSE IF ~body.has_value THEN KeyError("value")
    ELSE Return(<<>>, body.value)

\* the backend operation kv_operation calls for a request method
MethodOp(method) ==
    IF method = "GET" THEN "get"
    ELSE IF method = "POST" THEN "create"
    ELSE IF method = "PUT" THEN "replace"
    ELSE "delete"

\* _build_response: the HTTP status, the api status of the body and the
\* body's "value" (None when the body has no "value" member: a value of
\* None is left out)
_build_response(http_status, value, api_status) ==
    [http_status |-> http_status, api_status |-> api_status, value |-> value]

\* the registered error handlers; an exception none of them handles is
\* answered by the framework with 500 and no api status
handle_exception(exc) ==
    IF exc = "BadRequest" THEN _build_response(400, None, FAILED_TO_PARSE_REQUEST_BODY)
    ELSE IF exc = "ValidationError"
         THEN _build_response(400, None, FAILED_TO_VALIDATE_REQUEST_BODY)
    ELSE IF exc = "KeyConflict" THEN _build_response(409, None, CREATE_KEY_ALREADY_PRESENT)
    ELSE IF exc = "KeyError" THEN _build_response(404, None, KEY_NOT_PRESENT)
    ELSE _build_response(500, None, 0)

\* the response of kv_operation once the backend call has returned `ret`
\* (value is the request's value)
kv_operation_response(method, value, ret) ==
    IF method = "GET" THEN _build_response(200, ret, NO_ERROR)
    ELSE IF method = "POST" THEN _build_response(201, value, NO_ERROR)
    ELSE IF method = "PUT"
         THEN _build_response(IF ret = None THEN 201 ELSE 200, value, NO_ERROR)
    ELSE _build_response(200, None, NO_ERROR)

\* a direct caller of the backend has no HTTP response
NoResponse == _build_response(0, None, 0)

\* ------------------------------------------------------------------ state
VARIABLES
    backends,   \* the backend types of the running apps (app.config['backend'])
    kv_store,   \* InMemoryKvStore.kv_store
    kv_file,    \* the file 'kv_file': whether it exists, and the opcodes in it
    instance,   \* per thread: the LocalDiskKvStore instance it calls
    lock,       \* per instance, LocalDiskKvStore.lock: 0 when free, else
                \*          the thread holding it
    pc,         \* per thread: the statement it is about to run
    call,       \* per thread: the call it is serving
    local,      \* per thread: the local variables of the running operation
    resp,       \* per thread: the outcome of its last finished call
    ncalls,     \* calls issued so far
    last,       \* history: the call that finished last
    lin         \* history: the store the disk calls give when run one by one,
                \*          in the order in which they took the lock, on the
                \*          file the process found when it started

vars == <<backends, instance, kv_store, kv_file, lock, pc, call, local, resp, ncalls,
         last, lin>>

\* every thread of a process calls the one backend create_app has
\* constructed; an instance is named by a number of 1..NumThreads
Instances == Threads

\* the locks when no instance's lock is held
Unlocked == [i \in Instances |-> 0]

\* history value of `overwrote` for an assignment that found no entry
Absent == "<absent>"

NoResult == [exc |-> "", args |-> <<>>, ret |-> None]
NoLocal == [kv_store |-> <<>>, value |-> None, overwrote |-> Absent, expect |-> NoResult]
NoResp == [exc |-> "", args |-> <<>>, ret |-> None, http |-> NoResponse]
NoLast == [op |-> "", key |-> "", value |-> None, exc |-> "", fresh |-> TRUE]
NoCall == [via |-> "", backend |-> "", method |-> "", op |-> "", key |-> "",
           value |-> None, body |-> NoBody, pre |-> <<>>, pre_file |-> <<>>,
           before |-> NoLast]

\* the state once create_app(backend_type) has constructed the backend, in a
\* directory without a kv_file
Init ==
    /\ backends \in {{b} : b \in BACKENDS}
    /\ kv_store = <<>>
    /\ kv_file = IF "local_disk" \in backends
                 THEN LocalDiskKvStore_init([isfile |-> FALSE, data |-> <<>>])
                 ELSE [isfile |-> FALSE, data |-> <<>>]
    /\ instance = [t \in Threads |-> 1]
    /\ lock = Unlocked
    /\ pc = [t \in Threads |-> "idle"]
    /\ call = [t \in Threads |-> NoCall]
    /\ local = [t \in Threads |-> NoLocal]
    /\ resp = [t \in Threads |-> NoResp]
    /\ ncalls = 0
    /\ last = NoLast
    /\ lin = <<>>

\* the first statement of a backend operation
Entry(backend, op) ==
    IF backend = "local_disk" THEN "disk_acquire" ELSE "mem_" \o op

\* the outcome of a call as its caller sees it: the exception or return
\* value of the backend, and for a request the HTTP response built from it
Outcome(c, r) ==
    [exc |-> r.exc, args |-> r.args, ret |-> r.ret,
     http |-> IF c.via = "direct" THEN NoResponse
              ELSE IF r.exc # "" THEN handle_exception(r.exc)
              ELSE kv_operation_response(c.method, c.value, r.ret)]

Returns(ret) == [exc |-> "", args |-> <<>>, ret |-> ret]
Raises(r) == [exc |-> r.exc, args |-> r.args, ret |-> None]

\* thread t finishes call c with result r
Finish(t, c, r) ==
    /\ pc' = [pc EXCEPT ![t] = "done"]
    /\ resp' = [resp EXCEPT ![t] = Outcome(c, r)]
    /\ last' = [op |-> c.op, key |-> c.key, value |-> c.value, exc |-> r.exc,
                fresh |-> FALSE]

\* a caller invokes backend.op(key, value) directly on thread t
DirectCall(t, backend, op, key, value) ==
    /\ pc[t] \in {"idle", "done"}
    /\ ncalls < MaxCalls
    /\ ncalls' = ncalls + 1
    /\ call' = [call EXCEPT ![t] =
                  [via |-> "direct", backend |-> backend, method |-> "", op |-> op,
                   key |-> key, value |-> value, body |-> NoBody,
                   pre |-> IF backend = "in_memory" THEN kv_store ELSE <<>>,
                   pre_file |-> IF backend = "local_disk" THEN kv_file.data ELSE <<>>,
                   before |-> last]]
    /\ local' = [local EXCEPT ![t] = NoLocal]
    /\ resp' = [resp EXCEPT ![t] = NoResp]
    /\ pc' = [pc EXCEPT ![t] = Entry(backend, op)]
    /\ UNCHANGED <<backends, instance, kv_store, kv_file, lock, last, lin>>

\* kv_operation(key) up to the backend call: a request with `method` and
\* `body` arrives on thread t at the app configured with `backend`; POST and
\* PUT read the value from the body first, and a body that is refused is
\* answered without calling the backend
kv_operation(t, backend, method, key, body) ==
    LET rd == IF method \in {"POST", "PUT"} THEN _read_request_value(body)
              ELSE Return(<<>>, None)
        c == [via |-> "http", backend |-> backend, method |-> method,
              op |-> MethodOp(method), key |-> key, value |-> rd.value, body |-> body,
              pre |-> IF backend = "in_memory" THEN kv_store ELSE <<>>,
              pre_file |-> IF backend = "local_disk" THEN kv_file.data ELSE <<>>,
              before |-> last]
    IN
    /\ pc[t] \in {"idle", "done"}
    /\ ncalls < MaxCalls
    /\ ncalls' = ncalls + 1
    /\ call' = [call EXCEPT ![t] = c]
    /\ local' = [local EXCEPT ![t] = NoLocal]
    /\ IF rd.exc # ""
       THEN Finish(t, c, Raises(rd))
       ELSE /\ pc' = [pc EXCEPT ![t] = Entry(backend, c.op)]
            /\ resp' = [resp EXCEPT ![t] = NoResp]
            /\ UNCHANGED last
    /\ UNCHANGED <<backends, instance, kv_store, kv_file, lock, lin>>

\* ------------------------------------------------------- InMemoryKvStore
\* The interpreter may switch threads between any two statements, so every
\* access to self.kv_store is a step of its own.
OnMem(t, label) == pc[t] = label /\ call[t].backend = "in_memory"

\* the entry of `key` that an assignment replaces (history)
Overwritten(d, key) == IF Contains(d, key) THEN GetItem(d, key) ELSE Absent

\* create, line 88: `if key in self.kv_store`
InMemoryKvStore_create(t) ==
    /\ OnMem(t, "mem_create")
    /\ pc' = [pc EXCEPT ![t] = IF Contains(kv_store, call[t].key)
                               THEN "mem_create_log" ELSE "mem_create_set"]
    /\ UNCHANGED <<backends, instance, kv_store, kv_file, lock, call, local, resp, ncalls, last, lin>>

\* create, lines 89-94: the log line reads self.kv_store[key]
InMemoryKvStore_create_log(t) ==
    /\ OnMem(t, "mem_create_log")
    /\ IF Contains(kv_store, call[t].key)
       THEN /\ pc' = [pc EXCEPT ![t] = "mem_create_raise"]
            /\ UNCHANGED <<resp, last>>
       ELSE Finish(t, call[t], Raises(KeyError(call[t].key)))
    /\ UNCHANGED <<backends, instance, kv_store, kv_file, lock, call, local, ncalls, lin>>

\* create, line 95: raise KeyConflict(key, self.kv_store[key], value)
InMemoryKvStore_create_raise(t) ==
    /\ OnMem(t, "mem_create_raise")
    /\ IF Contains(kv_store, call[t].key)
       THEN Finish(t, call[t], Raises(KeyConflict(
                <<call[t].key, GetItem(kv_store, call[t].key), call[t].value>>)))
       ELSE Finish(t, call[t], Raises(KeyError(call[t].key)))
    /\ UNCHANGED <<backends, instance, kv_store, kv_file, lock, call, local, ncalls, lin>>

\* create, line 96: self.kv_store[key] = value, and the method returns None
InMemoryKvStore_create_set(t) ==
    /\ OnMem(t, "mem_create_set")
    /\ kv_store' = SetItem(kv_store, call[t].key, call[t].value)
    /\ local' = [local EXCEPT ![t].overwrote = Overwritten(kv_store, call[t].key)]
    /\ Finish(t, call[t], Returns(None))
    /\ UNCHANGED <<backends, instance, kv_file, lock, call, ncalls, lin>>

\* replace, lines 99-105: `if key not in self.kv_store`, old_value = None
InMemoryKvStore_replace(t) ==
    /\ OnMem(t, "mem_replace")
    /\ IF ~Contains(kv_store, call[t].key)
       THEN /\ local' = [local EXCEPT ![t].value = None]
            /\ pc' = [pc EXCEPT ![t] = "mem_replace_set"]
       ELSE /\ pc' = [pc EXCEPT ![t] = "mem_replace_old"]
            /\ UNCHANGED local
    /\ UNCHANGED <<backends, instance, kv_store, kv_file, lock, call, resp, ncalls, last, lin>>

\* replace, line 107: old_value = self.kv_store[key]
InMemoryKvStore_replace_old(t) ==
    /\ OnMem(t, "mem_replace_old")
    /\ IF Contains(kv_store, call[t].key)
       THEN /\ local' = [local EXCEPT ![t].value = GetItem(kv_store, call[t].key)]
            /\ pc' = [pc EXCEPT ![t] = "mem_replace_set"]
            /\ UNCHANGED <<resp, last>>
       ELSE /\ Finish(t, call[t], Raises(KeyError(call[t].key)))
            /\ UNCHANGED local
    /\ UNCHANGED <<backends, instance, kv_store, kv_file, lock, call, ncalls, lin>>

\* replace, lines 108-109: self.kv_store[key] = value; return old_value
InMemoryKvStore_replace_set(t) ==
    /\ OnMem(t, "mem_replace_set")
    /\ kv_store' = SetItem(kv_store, call[t].key, call[t].value)
    /\ local' = [local EXCEPT ![t].overwrote = Overwritten(kv_store, call[t].key)]
    /\ Finish(t, call[t], Returns(local[t].value))
    /\ UNCHANGED <<backends, instance, kv_file, lock, call, ncalls, lin>>

\* delete, line 112: return self.kv_store.pop(key)
InMemoryKvStore_delete(t) ==
    /\ OnMem(t, "mem_delete")
    /\ IF Contains(kv_store, call[t].key)
       THEN /\ kv_store' = PopItem(kv_store, call[t].key)
            /\ Finish(t, call[t], Returns(GetItem(kv_store, call[t].key)))
       ELSE /\ Finish(t, call[t], Raises(KeyError(call[t].key)))
            /\ UNCHANGED kv_store
    /\ UNCHANGED <<backends, instance, kv_file, lock, call, local, ncalls, lin>>

\* get, line 115: return self.kv_store[key]
InMemoryKvStore_get(t) ==
    /\ OnMem(t, "mem_get")
    /\ IF Contains(kv_store, call[t].key)
       THEN Finish(t, call[t], Returns(GetItem(kv_store, call[t].key)))
       ELSE Finish(t, call[t], Raises(KeyError(call[t].key)))
    /\ UNCHANGED <<backends, instance, kv_store, kv_file, lock, call, local, ncalls, lin>>

\* ------------------------------------------------------ LocalDiskKvStore
OnDisk(t, label) == pc[t] = label /\ call[t].backend = "local_disk"

\* mutant: the lock is never found taken
LockFree_unguarded(t) == TRUE

\* mutant: one lock is shared by all the instances
LockFree_shared(t) == lock = Unlocked

\* whether thread t can enter `with self.lock` of the instance it calls
LockFree(t) == lock[instance[t]] = 0

\* what _safe_op(kv_op) does to a store when nothing else runs: the store
\* it leaves in the file and the result the method hands to its caller
SafeOpAlone(c, d) ==
    LET r == kv_op(c.op, c.key, c.value, pickle_dump(d)) IN
    IF r.exc # "" THEN [kv_store |-> d, result |-> Raises(r)]
    ELSE [kv_store |-> r.kv_store, result |-> Returns(MethodReturn(c.op, r.value))]

\* _safe_op, line 138: `with self.lock` acquires the lock
_safe_op_acquire(t) ==
    /\ OnDisk(t, "disk_acquire")
    /\ LockFree(t)
    /\ lock' = [lock EXCEPT ![instance[t]] = t]
    /\ pc' = [pc EXCEPT ![t] = "disk_read"]
    /\ lin' = SafeOpAlone(call[t], lin).kv_store
    /\ local' = [local EXCEPT ![t].expect = SafeOpAlone(call[t], lin).result]
    /\ UNCHANGED <<backends, instance, kv_store, kv_file, call, resp, ncalls, last>>

\* mutant: _safe_op opens the file with 'wb' before kv_op has succeeded, so
\* a failing kv_op leaves it truncated
_safe_op_read_truncating(t) ==
    /\ OnDisk(t, "disk_read")
    /\ LET r == IF ~kv_file.isfile THEN Raise("FileNotFoundError", <<>>)
                ELSE kv_op(call[t].op, call[t].key, call[t].value, kv_file.data)
       IN IF r.exc # ""
          THEN /\ lock' = [lock EXCEPT ![instance[t]] = 0]
               /\ kv_file' = [isfile |-> TRUE, data |-> <<>>]
               /\ Finish(t, call[t], Raises(r))
               /\ UNCHANGED local
          ELSE /\ local' = [local EXCEPT ![t].kv_store = r.kv_store,
                                         ![t].value = r.value]
               /\ pc' = [pc EXCEPT ![t] = "disk_open_wb"]
               /\ UNCHANGED <<kv_file, lock, resp, last>>
    /\ UNCHANGED <<backends, instance, kv_store, call, ncalls, lin>>

\* mutant: an exception raised by kv_op leaves the lock taken
_safe_op_read_holding(t) ==
    /\ OnDisk(t, "disk_read")
    /\ LET r == IF ~kv_file.isfile THEN Raise("FileNotFoundError", <<>>)
                ELSE kv_op(call[t].op, call[t].key, call[t].value, kv_file.data)
       IN IF r.exc # ""
          THEN /\ Finish(t, call[t], Raises(r))
               /\ UNCHANGED <<local, lock>>
          ELSE /\ local' = [local EXCEPT ![t].kv_store = r.kv_store,
                                         ![t].value = r.value]
               /\ pc' = [pc EXCEPT ![t] = "disk_open_wb"]
               /\ UNCHANGED <<lock, resp, last>>
    /\ UNCHANGED <<backends, instance, kv_store, kv_file, call, ncalls, lin>>

\* mutant: after an exception of kv_op, _safe_op releases the lock and
\* starts over
_safe_op_read_retrying(t) ==
    /\ OnDisk(t, "disk_read")
    /\ LET r == IF ~kv_file.isfile THEN Raise("FileNotFoundError", <<>>)
                ELSE kv_op(call[t].op, call[t].key, call[t].value, kv_file.data)
       IN IF r.exc # ""
          THEN /\ lock' = [lock EXCEPT ![instance[t]] = 0]
               /\ pc' = [pc EXCEPT ![t] = "disk_acquire"]
               /\ UNCHANGED <<local, resp, last>>
          ELSE /\ local' = [local EXCEPT ![t].kv_store = r.kv_store,
                                         ![t].value = r.value]
               /\ pc' = [pc EXCEPT ![t] = "disk_open_wb"]
               /\ UNCHANGED <<lock, resp, last>>
    /\ UNCHANGED <<backends, instance, kv_store, kv_file, call, ncalls, lin>>

\* _safe_op, lines 139-140: open the file for reading and run kv_op on it;
\* an exception leaves both `with` blocks, which releases the lock
_safe_op_read(t) ==
    /\ OnDisk(t, "disk_read")
    /\ LET r == IF ~kv_file.isfile THEN Raise("FileNotFoundError", <<>>)
                ELSE kv_op(call[t].op, call[t].key, call[t].value, kv_file.data)
       IN IF r.exc # ""
          THEN /\ lock' = [lock EXCEPT ![instance[t]] = 0]
               /\ Finish(t, call[t], Raises(r))
               /\ UNCHANGED local
          ELSE /\ local' = [local EXCEPT ![t].kv_store = r.kv_store,
                                         ![t].value = r.value]
               /\ pc' = [pc EXCEPT ![t] = "disk_open_wb"]
               /\ UNCHANGED <<lock, resp, last>>
    /\ UNCHANGED <<backends, instance, kv_store, kv_file, call, ncalls, lin>>

\* _safe_op, line 141: open(self.filename, 'wb') truncates the file
_safe_op_open_wb(t) ==
    /\ OnDisk(t, "disk_open_wb")
    /\ kv_file' = [isfile |-> TRUE, data |-> <<>>]
    /\ pc' = [pc EXCEPT ![t] = "disk_dump"]
    /\ UNCHANGED <<backends, instance, kv_store, lock, call, local, resp, ncalls, last, lin>>

\* mutant: _safe_op dumps the value kv_op returned in place of kv_store
_safe_op_dump_value(t) ==
    /\ OnDisk(t, "disk_dump")
    /\ kv_file' = [isfile |-> TRUE, data |-> <<"PROTO", local[t].value, "STOP">>]
    /\ pc' = [pc EXCEPT ![t] = "disk_release"]
    /\ UNCHANGED <<backends, instance, kv_store, lock, call, local, resp, ncalls, last, lin>>

\* _safe_op, line 142: pickle.dump(kv_store, f), and the file is closed
_safe_op_dump(t) ==
    /\ OnDisk(t, "disk_dump")
    /\ kv_file' = [isfile |-> TRUE, data |-> pickle_dump(local[t].kv_store)]
    /\ pc' = [pc EXCEPT ![t] = "disk_release"]
    /\ UNCHANGED <<backends, instance, kv_store, lock, call, local, resp, ncalls, last, lin>>

\* _safe_op, lines 138 and 143: the lock is released and value returned
_safe_op_release(t) ==
    /\ OnDisk(t, "disk_release")
    /\ lock' = [lock EXCEPT ![instance[t]] = 0]
    /\ Finish(t, call[t], Returns(MethodReturn(call[t].op, local[t].value)))
    /\ UNCHANGED <<backends, instance, kv_store, kv_file, call, local, ncalls, lin>>

\* ---------------------------------------------------------------- restart
\* The service is stopped while no request is being served and started
\* again: create_app() constructs the backend anew in the same directory.
Restart ==
    /\ \A t \in Threads : pc[t] \in {"idle", "done"}
    /\ ~last.fresh
    /\ kv_store' = <<>>
    /\ kv_file' = IF "local_disk" \in backends THEN LocalDiskKvStore_init(kv_file)
                  ELSE kv_file
    /\ lock' = Unlocked
    /\ pc' = [t \in Threads |-> "idle"]
    /\ call' = [t \in Threads |-> NoCall]
    /\ local' = [t \in Threads |-> NoLocal]
    /\ resp' = [t \in Threads |-> NoResp]
    /\ last' = [last EXCEPT !.fresh = TRUE]
    /\ UNCHANGED <<backends, instance, ncalls, lin>>

\* ------------------------------------------------------------------ crash
\* what a file opened with 'wb' holds when the process dies while
\* pickle.dump(d, f) is writing it: some prefix of the pickle, from nothing
\* to all of it
TornWrites(d) == {SubSeq(pickle_dump(d), 1, n) : n \in 0..Len(pickle_dump(d))}

\* The process is killed while a call is running, and the service is started
\* again. A thread killed inside line 142 leaves a torn file; everything
\* else on disk stays as the last completed statement left it.
Crash ==
    /\ \E t \in Threads : pc[t] \notin {"idle", "done"}
    /\ \E f \in IF \E t \in Threads : pc[t] = "disk_dump"
                THEN UNION {{[isfile |-> TRUE, data |-> w] : w \in TornWrites(local[t].kv_store)}
                            : t \in {u \in Threads : pc[u] = "disk_dump"}}
                ELSE {kv_file} :
          kv_file' = IF "local_disk" \in backends THEN LocalDiskKvStore_init(f) ELSE f
    /\ kv_store' = <<>>
    /\ lock' = Unlocked
    /\ pc' = [t \in Threads |-> "idle"]
    /\ call' = [t \in Threads |-> NoCall]
    /\ local' = [t \in Threads |-> NoLocal]
    /\ resp' = [t \in Threads |-> NoResp]
    /\ last' = NoLast
    /\ lin' = pickle_load(kv_file'.data).kv_store
    /\ UNCHANGED <<backends, instance, ncalls>>

\* ------------------------------------------------------------ specifications
\* one statement of the operation thread t is running
MemStep(t) ==
    \/ InMemoryKvStore_create(t)
    \/ InMemoryKvStore_create_log(t)
    \/ InMemoryKvStore_create_raise(t)
    \/ InMemoryKvStore_create_set(t)
    \/ InMemoryKvStore_replace(t)
    \/ InMemoryKvStore_replace_old(t)
    \/ InMemoryKvStore_replace_set(t)
    \/ InMemoryKvStore_delete(t)
    \/ InMemoryKvStore_get(t)

DiskStep(t) ==
    \/ _safe_op_acquire(t)
    \/ _safe_op_read(t)
    \/ _safe_op_open_wb(t)
    \/ _safe_op_dump(t)
    \/ _safe_op_release(t)

Quiet == \A t \in Threads : pc[t] \in {"idle", "done"}

\* the value argument of a call: only create and replace take one
Arg(op, v) == IF op \in {"create", "replace"} THEN v ELSE None

\* One caller of the backend: a call is issued when the call before it has
\* finished, and the service may be restarted between two calls.
Next ==
    \/ \E t \in Threads : MemStep(t)
    \/ \E t \in Threads : DiskStep(t)
    \/ Quiet /\ \E b \in backends, op \in Ops, k \in Keys, v \in Values :
                    DirectCall(1, b, op, k, Arg(op, v))
    \/ Restart

Spec == Init /\ [][Next]_vars

\* One caller of the backend, and a process that may be killed at any
\* statement of the call it is running.
NextCrash ==
    \/ Next
    \/ Crash

SpecCrash == Init /\ [][NextCrash]_vars

\* One HTTP client: a request is sent when the one before it is answered.
NextHttp ==
    \/ \E t \in Threads : MemStep(t)
    \/ \E t \in Threads : DiskStep(t)
    \/ Quiet /\ \E b \in backends, m \in Methods, k \in Keys, body \in Bodies :
                    kv_operation(1, b, m, k, IF m \in {"POST", "PUT"} THEN body ELSE NoBody)
    \/ Restart

SpecHttp == Init /\ [][NextHttp]_vars

\* Several callers of one LocalDiskKvStore: every thread issues its calls
\* whenever it is free to, whatever the other threads are doing. The
\* backend is constructed on a kv_file that an earlier run has left.
ConcKeys == {"foo"}
ConcValues == {"bar", None}
ConcStores == {<<>>, <<<<"foo", "456">>>>}

InitDisk ==
    /\ backends = {"local_disk"}
    /\ kv_store = <<>>
    /\ \E d \in ConcStores :
          /\ kv_file = LocalDiskKvStore_init([isfile |-> TRUE, data |-> pickle_dump(d)])
          /\ lin = d
    /\ instance = [t \in Threads |-> 1]
    /\ lock = Unlocked
    /\ pc = [t \in Threads |-> "idle"]
    /\ call = [t \in Threads |-> NoCall]
    /\ local = [t \in Threads |-> NoLocal]
    /\ resp = [t \in Threads |-> NoResp]
    /\ ncalls = 0
    /\ last = NoLast

NextDisk ==
    \/ \E t \in Threads : DiskStep(t)
    \/ ncalls < MaxConcCalls /\ \E t \in Threads, op \in Ops, k \in ConcKeys, v \in ConcValues :
            DirectCall(t, "local_disk", op, k, Arg(op, v))

SpecDisk == InitDisk /\ [][NextDisk]_vars

\* Several callers of one InMemoryKvStore.
InitMem == Init /\ backends = {"in_memory"}

NextMem ==
    \/ \E t \in Threads : MemStep(t)
    \/ ncalls < MaxConcCalls /\ \E t \in Threads, op \in Ops, k \in ConcKeys, v \in ConcValues :
            DirectCall(t, "in_memory", op, k, Arg(op, v))

SpecMem == InitMem /\ [][NextMem]_vars

\* ------------------------------------------------------------ observations
\* whether the request was answered before the backend was called
Refused(c) ==
    /\ c.via = "http"
    /\ c.method \in {"POST", "PUT"}
    /\ _read_request_value(c.body).exc # ""

\* thread t has finished a call that reached the backend
Called(t) == pc[t] = "done" /\ ~Refused(call[t])

\* the store of the backend a call ran on, when the call was issued and now
PreStore(c) ==
    IF c.backend = "in_memory" THEN c.pre ELSE pickle_load(c.pre_file).kv_store
CurStore(c) ==
    IF c.backend = "in_memory" THEN kv_store ELSE pickle_load(kv_file.data).kv_store

\* thread t has finished a call of `op` that reached backend `b`
Ran(t, b, op) == Called(t) /\ call[t].backend = b /\ call[t].op = op

\* the call that finished just before call c was issued, with no restart
\* in between, was a successful `op` on the key of c
Follows(c, op) ==
    /\ c.before.op = op
    /\ c.before.exc = ""
    /\ c.before.key = c.key
    /\ ~c.before.fresh

\* ------------------------------------------------------------------ claims

\* C1: in both backends, create(k, v2) on a store that holds k with v1
\* raises KeyConflict carrying k, v1 and v2, and k still holds v1.
C1_CreateConflict ==
    \A t \in Threads :
        (Called(t) /\ call[t].op = "create" /\ Contains(PreStore(call[t]), call[t].key))
        => /\ resp[t].exc = "KeyConflict"
           /\ resp[t].args = <<call[t].key, GetItem(PreStore(call[t]), call[t].key),
                               call[t].value>>
           /\ Contains(CurStore(call[t]), call[t].key)
           /\ GetItem(CurStore(call[t]), call[t].key)
                = GetItem(PreStore(call[t]), call[t].key)

\* C2: a LocalDiskKvStore operation that fails (whatever it raises: the
\* conflict of create, the KeyError of delete and get, the exception of a
\* file that does not decode) leaves kv_file holding exactly what it held
\* when the call was issued.
C2_FailedOpLeavesFile ==
    \A t \in Threads :
        (Called(t) /\ call[t].backend = "local_disk" /\ resp[t].exc # "")
        => kv_file = [isfile |-> TRUE, data |-> call[t].pre_file]

\* C2 witness: a create on a key that is present in a well-formed file has
\* failed.
C2_Witness ==
    \E t \in Threads :
        /\ Ran(t, "local_disk", "create")
        /\ resp[t].exc # ""
        /\ pickle_load(call[t].pre_file).exc = ""
        /\ Contains(PreStore(call[t]), call[t].key)

\* the backend's result of the call thread t has finished
Result(t) == [exc |-> resp[t].exc, args |-> resp[t].args, ret |-> resp[t].ret]

\* C3: whatever way the calls of several threads on one LocalDiskKvStore
\* interleave, every call returns what it returns when the calls run one
\* after the other in the order they took the lock, and whenever the lock
\* is free the file holds the store that sequential run leaves.
C3_Linearizable ==
    /\ \A t \in Threads :
          (pc[t] = "done" /\ call[t].backend = "local_disk")
          => Result(t) = local[t].expect
    /\ lock = Unlocked => kv_file = [isfile |-> TRUE, data |-> pickle_dump(lin)]

\* C3 witness: two replace calls were issued on the same file contents, and
\* one of them returned as previous value the value the other one wrote.
C3_Witness ==
    \E t, u \in Threads :
        /\ t # u
        /\ Ran(t, "local_disk", "replace") /\ Ran(u, "local_disk", "replace")
        /\ call[t].pre_file = call[u].pre_file
        /\ call[u].value = "bar"
        /\ call[t].value = None
        /\ resp[t].exc = "" /\ resp[t].ret = "bar"
        /\ resp[u].exc = ""

\* what replace reports for the entry an assignment replaced
Reported(overwrote) == IF overwrote = Absent THEN None ELSE overwrote

\* C4: the operations of InMemoryKvStore are atomic when several threads
\* call them: a create that succeeds has replaced no entry (of two creates
\* of one key only one succeeds), and a replace returns the value that its
\* assignment replaced.
C4_MemAtomic ==
    \A t \in Threads :
        (pc[t] = "done" /\ call[t].backend = "in_memory" /\ resp[t].exc = "")
        => /\ call[t].op = "create" => local[t].overwrote = Absent
           /\ call[t].op = "replace" => resp[t].ret = Reported(local[t].overwrote)

\* C5: a process killed during the write step of a LocalDiskKvStore
\* operation leaves a file that decodes, to the store the operation read or
\* to the store it was writing.
C5_CrashAtomic ==
    [][\A t \in Threads :
          (pc[t] \in {"disk_open_wb", "disk_dump", "disk_release"} /\ pc'[t] = "idle")
          => /\ pickle_load(kv_file'.data).exc = ""
             /\ AsMap(pickle_load(kv_file'.data).kv_store)
                  \in {AsMap(PreStore(call[t])), AsMap(local[t].kv_store)}]_vars

\* C6: a LocalDiskKvStore constructed on the file an earlier instance has
\* left finds in it the store the calls on that instance produced, and a
\* get on it of a key the earlier instance created last returns the value
\* created.
C6_FreshInstanceSeesStore ==
    "local_disk" \in backends =>
        /\ (last.fresh /\ \A t \in Threads : pc[t] = "idle")
           => /\ kv_file.isfile
              /\ pickle_load(kv_file.data).exc = ""
              /\ AsMap(pickle_load(kv_file.data).kv_store) = AsMap(lin)
        /\ \A t \in Threads :
              (/\ Ran(t, "local_disk", "get")
               /\ call[t].before.op = "create"
               /\ call[t].before.exc = ""
               /\ call[t].before.key = call[t].key
               /\ call[t].before.fresh)
              => resp[t].exc = "" /\ resp[t].ret = call[t].before.value

\* C6 witness: a get on a fresh instance has returned the value the
\* instance before it created.
C6_Witness ==
    \E t \in Threads :
        /\ Ran(t, "local_disk", "get")
        /\ call[t].before.op = "create"
        /\ call[t].before.exc = ""
        /\ call[t].before.key = call[t].key
        /\ call[t].before.fresh
        /\ resp[t].ret = call[t].before.value
        /\ resp[t].ret # None

\* C7: in both backends replace never fails, and its result tells whether
\* the key was there: it is the no-previous-value result (None) exactly
\* when the key was absent.
C7_ReplaceTellsCreated ==
    \A t \in Threads :
        (Called(t) /\ call[t].op = "replace")
        => /\ resp[t].exc = ""
           /\ resp[t].ret = None <=> ~Contains(PreStore(call[t]), call[t].key)

\* C8: a valid PUT is answered 201 when the key was absent and 200 when it
\* was present, with api status 1000, and the GET that follows it is
\* answered 200 with the value put.
C8_PutStatus ==
    \A t \in Threads :
        /\ (Called(t) /\ call[t].method = "PUT")
           => /\ resp[t].http.api_status = NO_ERROR
              /\ resp[t].http.http_status
                   = IF Contains(PreStore(call[t]), call[t].key) THEN 200 ELSE 201
        /\ (Called(t) /\ call[t].method = "GET" /\ Follows(call[t], "replace"))
           => /\ resp[t].http.http_status = 200
              /\ resp[t].http.value = call[t].before.value

\* C8 witness: a PUT of the value the key already holds was answered 200.
C8_Witness ==
    \E t \in Threads :
        /\ Called(t) /\ call[t].method = "PUT"
        /\ Contains(PreStore(call[t]), call[t].key)
        /\ GetItem(PreStore(call[t]), call[t].key) = call[t].value
        /\ resp[t].http.http_status = 200

\* C9: delete of a present key returns the stored value (DELETE: 200, api
\* status 1000) and the get that follows raises KeyError (GET: 404, 3001);
\* delete of an absent key raises KeyError (404, 3001) and changes nothing.
C9_Delete ==
    \A t \in Threads :
        /\ (Called(t) /\ call[t].op = "delete" /\ Contains(PreStore(call[t]), call[t].key))
           => /\ resp[t].exc = ""
              /\ resp[t].ret = GetItem(PreStore(call[t]), call[t].key)
              /\ resp[t].http.http_status = 200
              /\ resp[t].http.api_status = NO_ERROR
              /\ ~Contains(CurStore(call[t]), call[t].key)
        /\ (Called(t) /\ call[t].op = "get" /\ Follows(call[t], "delete"))
           => /\ resp[t].exc = "KeyError"
              /\ resp[t].http.http_status = 404
              /\ resp[t].http.api_status = KEY_NOT_PRESENT
        /\ (Called(t) /\ call[t].op = "delete" /\ ~Contains(PreStore(call[t]), call[t].key))
           => /\ resp[t].exc = "KeyError"
              /\ resp[t].http.http_status = 404
              /\ resp[t].http.api_status = KEY_NOT_PRESENT
              /\ CurStore(call[t]) = PreStore(call[t])
              /\ call[t].backend = "local_disk" => kv_file.data = call[t].pre_file

\* C9 witness: the GET that follows a successful DELETE was answered 404.
C9_Witness ==
    \E t \in Threads :
        /\ Called(t) /\ call[t].method = "GET" /\ Follows(call[t], "delete")
        /\ resp[t].http.http_status = 404

\* C10: the get that follows a successful create(k, v) returns v, for a
\* string, a number, a boolean and None alike.
C10_CreateThenGet ==
    \A t \in Threads :
        (Called(t) /\ call[t].op = "get" /\ Follows(call[t], "create"))
        => resp[t].exc = "" /\ resp[t].ret = call[t].before.value

\* C10 witness: the get that follows create(k, None) has returned None.
C10_Witness ==
    \E t \in Threads :
        /\ Ran(t, "local_disk", "get") /\ Follows(call[t], "create")
        /\ call[t].before.value = None
        /\ resp[t].exc = "" /\ resp[t].ret = None

\* the statements of _safe_op that run inside `with self.lock`
InLock == {"disk_read", "disk_open_wb", "disk_dump", "disk_release"}

\* the threads that are between taking the lock and releasing it
Holders == {t \in Threads : pc[t] \in InLock /\ call[t].backend = "local_disk"}

\* C11: on one LocalDiskKvStore at most one operation is between taking the
\* lock and releasing it, that operation is the one the lock records, and
\* every step that reads the file for kv_op or changes the file is taken by
\* the thread that holds the lock.
C11_MutualExclusion ==
    /\ [](/\ Cardinality(Holders) <= 1
          /\ Holders = {t \in Threads : lock[instance[t]] = t})
    /\ [][/\ kv_file' # kv_file
             => \E t \in Threads : /\ lock[instance[t]] = t
                                   /\ pc[t] \in {"disk_open_wb", "disk_dump"}
                                   /\ pc'[t] # pc[t]
          /\ \A t \in Threads :
                (pc[t] = "disk_read" /\ pc'[t] # "disk_read")
                => lock[instance[t]] = t]_vars

\* C11 witness: one thread has truncated the file and is about to write it
\* while another thread is waiting for the lock.
C11_Witness ==
    \E t, u \in Threads :
        /\ t # u
        /\ pc[t] = "disk_dump" /\ lock[instance[t]] = t
        /\ pc[u] = "disk_acquire"
        /\ kv_file.data = <<>>

\* ------------------------------------------------------------ I/O failures
\* _safe_op, lines 139-142: the operating system refuses open(filename,
\* 'rb'), the read of pickle.load, open(filename, 'wb') or a write of
\* pickle.dump. The OSError leaves the `with` blocks, which closes the file
\* and releases the lock; a dump that fails has written some prefix of the
\* pickle, the other statements leave the file as it is.
_safe_op_oserror(t) ==
    /\ \E label \in {"disk_read", "disk_open_wb", "disk_dump"} : OnDisk(t, label)
    /\ \E w \in IF pc[t] = "disk_dump" THEN TornWrites(local[t].kv_store)
                ELSE {kv_file.data} :
          /\ kv_file' = [isfile |-> TRUE, data |-> w]
          /\ lin' = pickle_load(w).kv_store
    /\ lock' = [lock EXCEPT ![instance[t]] = 0]
    /\ Finish(t, call[t], Raises(Raise("OSError", <<>>)))
    /\ UNCHANGED <<backends, instance, kv_store, call, local, ncalls>>

\* the statements of _safe_op between taking the lock and releasing it
InLockStep(t) ==
    \/ _safe_op_read(t)
    \/ _safe_op_open_wb(t)
    \/ _safe_op_dump(t)
    \/ _safe_op_release(t)

\* Several callers of one LocalDiskKvStore whose file operations may fail,
\* on a kv_file that an earlier run has left whole or cut short. A thread
\* that is running keeps running, and the lock is handed over fairly: a
\* thread that finds the lock free again and again gets it.
LiveOps == {"create", "delete"}
LiveFiles == {pickle_dump(<<>>), <<>>}

InitLive ==
    /\ backends = {"local_disk"}
    /\ kv_store = <<>>
    /\ \E data \in LiveFiles :
          /\ kv_file = LocalDiskKvStore_init([isfile |-> TRUE, data |-> data])
          /\ lin = pickle_load(data).kv_store
    /\ instance = [t \in Threads |-> 1]
    /\ lock = Unlocked
    /\ pc = [t \in Threads |-> "idle"]
    /\ call = [t \in Threads |-> NoCall]
    /\ local = [t \in Threads |-> NoLocal]
    /\ resp = [t \in Threads |-> NoResp]
    /\ ncalls = 0
    /\ last = NoLast

NextLive ==
    \/ \E t \in Threads : DiskStep(t)
    \/ \E t \in Threads : _safe_op_oserror(t)
    \/ ncalls < MaxConcCalls /\ \E t \in Threads, op \in LiveOps, k \in ConcKeys :
            DirectCall(t, "local_disk", op, k, Arg(op, "bar"))

FairLive ==
    \A t \in Threads : WF_vars(InLockStep(t)) /\ SF_vars(_safe_op_acquire(t))

SpecLive == InitLive /\ [][NextLive]_vars /\ FairLive

\* C12: a LocalDiskKvStore operation that has taken the lock releases it,
\* whether it returns, raises the exception of kv_op (conflict, absent key,
\* file that does not decode) or is refused by the operating system, and a
\* caller that waits for the lock gets it: the lock is never held for ever,
\* and no thread stays for ever at the acquisition.
C12_LockReleased ==
    /\ []<>(lock = Unlocked)
    /\ \A t \in Threads : []<>(pc[t] # "disk_acquire")

\* C12 witness: an operation has failed on a file that does not decode and
\* has released the lock, while another caller is waiting for the lock.
C12_Witness ==
    \E t, u \in Threads :
        /\ t # u
        /\ Ran(t, "local_disk", "create")
        /\ resp[t].exc \in {"EOFError", "UnpicklingError"}
        /\ lock = Unlocked
        /\ pc[u] = "disk_acquire"

\* C13: a LocalDiskKvStore operation on a kv_file that is not a complete
\* pickle never reaches the write step and fails with the exception of
\* pickle.load, create and replace included, and the file is left holding
\* what it held.
C13_CorruptFileFails ==
    \A t \in Threads :
        (call[t].backend = "local_disk" /\ ~WellFormed(call[t].pre_file))
        => /\ pc[t] \in {"disk_acquire", "disk_read", "done"}
           /\ pc[t] = "done"
              => /\ resp[t].exc \in {"EOFError", "UnpicklingError"}
                 /\ kv_file = [isfile |-> TRUE, data |-> call[t].pre_file]

\* C13 witness: a replace has failed on a file cut short inside the pickle.
C13_Witness ==
    \E t \in Threads :
        /\ Ran(t, "local_disk", "replace")
        /\ call[t].pre_file # <<>>
        /\ ~WellFormed(call[t].pre_file)
        /\ resp[t].exc = "UnpicklingError"

\* ------------------------------------------------------------ side by side
\* An InMemoryKvStore and a LocalDiskKvStore, both constructed empty, are
\* given the same calls: each call is made on the two backends, on thread 1
\* and thread 2, and the next call is made when both have finished.
InitPair ==
    /\ backends = BACKENDS
    /\ kv_store = <<>>
    /\ kv_file = LocalDiskKvStore_init([isfile |-> FALSE, data |-> <<>>])
    /\ instance = [t \in Threads |-> 1]
    /\ lock = Unlocked
    /\ pc = [t \in Threads |-> "idle"]
    /\ call = [t \in Threads |-> NoCall]
    /\ local = [t \in Threads |-> NoLocal]
    /\ resp = [t \in Threads |-> NoResp]
    /\ ncalls = 0
    /\ last = NoLast
    /\ lin = <<>>

PairCall(op, key, value) ==
    LET c(backend) ==
            [via |-> "direct", backend |-> backend, method |-> "", op |-> op,
             key |-> key, value |-> value, body |-> NoBody,
             pre |-> IF backend = "in_memory" THEN kv_store ELSE <<>>,
             pre_file |-> IF backend = "local_disk" THEN kv_file.data ELSE <<>>,
             before |-> last]
    IN /\ Quiet
       /\ ncalls < MaxCalls
       /\ ncalls' = ncalls + 1
       /\ call' = [call EXCEPT ![1] = c("in_memory"), ![2] = c("local_disk")]
       /\ local' = [local EXCEPT ![1] = NoLocal, ![2] = NoLocal]
       /\ resp' = [resp EXCEPT ![1] = NoResp, ![2] = NoResp]
       /\ pc' = [pc EXCEPT ![1] = Entry("in_memory", op), ![2] = Entry("local_disk", op)]
       /\ UNCHANGED <<backends, instance, kv_store, kv_file, lock, last, lin>>

NextPair ==
    \/ \E t \in Threads : MemStep(t)
    \/ \E t \in Threads : DiskStep(t)
    \/ \E op \in Ops, k \in Keys, v \in Values : PairCall(op, k, Arg(op, v))

SpecPair == InitPair /\ [][NextPair]_vars

\* both backends have finished the call they were given
PairDone == pc[1] = "done" /\ pc[2] = "done"

\* C14: given the same calls one after the other from an empty store,
\* LocalDiskKvStore and InMemoryKvStore give for every call the same result
\* (the same return value, or the same exception with the same arguments),
\* and after every call the dict in kv_file is the dict of the
\* InMemoryKvStore.
C14_SameOutcome ==
    PairDone
    => /\ Result(1) = Result(2)
       /\ pickle_load(kv_file.data).exc = ""
       /\ AsMap(pickle_load(kv_file.data).kv_store) = AsMap(kv_store)

\* C15: whichever backend the app is configured with, a POST on a key that
\* is present is answered 409 with api status 3003, and a GET or a DELETE
\* on a key that is absent is answered 404 with api status 3001.
C15_ErrorResponses ==
    \A t \in Threads :
        /\ (Called(t) /\ call[t].method = "POST"
              /\ Contains(PreStore(call[t]), call[t].key))
           => /\ resp[t].http.http_status = 409
              /\ resp[t].http.api_status = CREATE_KEY_ALREADY_PRESENT
        /\ (Called(t) /\ call[t].method \in {"GET", "DELETE"}
              /\ ~Contains(PreStore(call[t]), call[t].key))
           => /\ resp[t].http.http_status = 404
              /\ resp[t].http.api_status = KEY_NOT_PRESENT

\* the body carries no "value" that is a string, a number or a boolean, or
\* carries a member besides "value"
LacksValue(body) ==
    \/ ~body.parses
    \/ ~body.has_value
    \/ body.extra
    \/ JsonType(body.value) \notin {"string", "number", "boolean"}

\* C16: a POST or PUT whose body lacks a string, number or boolean "value"
\* (the value is null, there is no "value" member, or there is another
\* member) is answered 400, with api status 3005 when the body is JSON, the
\* backend is not called and the store is left as it was.
C16_BadBodyRefused ==
    \A t \in Threads :
        (pc[t] = "done" /\ call[t].method \in {"POST", "PUT"} /\ LacksValue(call[t].body))
        => /\ resp[t].http.http_status = 400
           /\ call[t].body.parses
              => resp[t].http.api_status = FAILED_TO_VALIDATE_REQUEST_BODY
           /\ Refused(call[t])
           /\ CurStore(call[t]) = PreStore(call[t])

\* ---------------------------------------------------------- two instances
\* Several LocalDiskKvStore instances (in one process or in several) are
\* constructed on the same kv_file, and every thread calls an instance of
\* its own. Each instance has the lock its constructor made (line 134).
TwoOps == {"create", "delete"}

InitTwo ==
    /\ backends = {"local_disk"}
    /\ instance = [t \in Threads |-> t]
    /\ kv_store = <<>>
    /\ \E d \in ConcStores :
          /\ kv_file = LocalDiskKvStore_init([isfile |-> TRUE, data |-> pickle_dump(d)])
          /\ lin = d
    /\ lock = Unlocked
    /\ pc = [t \in Threads |-> "idle"]
    /\ call = [t \in Threads |-> NoCall]
    /\ local = [t \in Threads |-> NoLocal]
    /\ resp = [t \in Threads |-> NoResp]
    /\ ncalls = 0
    /\ last = NoLast

NextTwo ==
    \/ \E t \in Threads : DiskStep(t)
    \/ ncalls < MaxConcCalls /\ \E t \in Threads, op \in TwoOps, k \in Keys :
            DirectCall(t, "local_disk", op, k, Arg(op, "bar"))

SpecTwo == InitTwo /\ [][NextTwo]_vars

\* C17: the lock of a LocalDiskKvStore keeps out the threads that call the
\* same instance and no others: of the threads inside `with self.lock` no
\* two call the same instance, and a thread that finds the lock of its own
\* instance free enters, whatever the threads on other instances on the
\* same file are doing.
C17_LockPerInstance ==
    /\ \A t, u \in Holders : instance[t] = instance[u] => t = u
    /\ \A t \in Threads :
          (OnDisk(t, "disk_acquire") /\ lock[instance[t]] = 0)
          => LockFree(t)

\* C17 witness: two instances were each given a create of a different key
\* on the same file contents, both creates have returned, and the file is
\* the store the second one to write had read before the first one wrote:
\* it lacks the key the first one created.
C17_Witness ==
    \E t, u \in Threads :
        /\ instance[t] # instance[u]
        /\ Ran(t, "local_disk", "create") /\ resp[t].exc = ""
        /\ Ran(u, "local_disk", "create") /\ resp[u].exc = ""
        /\ call[t].key # call[u].key
        /\ call[t].pre_file = call[u].pre_file
        /\ lock = Unlocked
        /\ kv_file.data = pickle_dump(local[u].kv_store)
        /\ ~Contains(CurStore(call[t]), call[t].key)
        /\ Contains(lin, call[t].key)

\* C18: the LocalDiskKvStore constructed where there was no kv_file has
\* made a file that holds the pickle of {}, and every get on it before any
\* other call raises KeyError; a LocalDiskKvStore constructed where a
\* kv_file exists leaves the file exactly as it found it.
C18_Construction ==
    /\ []("local_disk" \in backends =>
            /\ ncalls = 0 => kv_file = [isfile |-> TRUE, data |-> pickle_dump(<<>>)]
            /\ \A t \in Threads :
                  (Ran(t, "local_disk", "get") /\ ncalls = 1)
                  => resp[t].exc = "KeyError" /\ resp[t].args = <<call[t].key>>)
    /\ [][(~last.fresh /\ last'.fresh) => kv_file' = kv_file]_vars

\* C18 witness: the backend has been constructed again on a kv_file that
\* holds an entry, and the file still holds it.
C18_Witness ==
    /\ "local_disk" \in backends
    /\ last.fresh /\ last.op # ""
    /\ \A t \in Threads : pc[t] = "idle"
    /\ pickle_load(kv_file.data).exc = ""
    /\ pickle_load(kv_file.data).kv_store # <<>>

\* whether d is a dict from keys to values: no key twice, values of the
\* value domain (string, number, boolean, null)
IsStore(d) ==
    /\ \A i \in 1..Len(d) : d[i][1] \in Keys /\ d[i][2] \in Values
    /\ \A i, j \in 1..Len(d) : d[i][1] = d[j][1] => i = j

\* C19: whenever no thread holds the lock of the LocalDiskKvStore, kv_file
\* is one complete pickle of a dict from keys to values, whatever calls
\* have returned or raised before.
C19_FileIsStore ==
    lock = Unlocked
    => /\ kv_file.isfile
       /\ pickle_load(kv_file.data).exc = ""
       /\ IsStore(pickle_load(kv_file.data).kv_store)
       /\ pickle_dump(pickle_load(kv_file.data).kv_store) = kv_file.data

\* C19 witness: the lock is free after one call has raised and another has
\* returned, and the file holds an entry.
C19_Witness ==
    \E t, u \in Threads :
        /\ lock = Unlocked
        /\ Called(t) /\ resp[t].exc # ""
        /\ Called(u) /\ resp[u].exc = ""
        /\ pickle_load(kv_file.data).kv_store # <<>>

\* C20: in both backends a create, a replace or a delete of key k leaves
\* every other key as it was, present with the same value or absent, and a
\* create or replace that returns leaves k with one entry, the value given.
C20_Frame ==
    \A t \in Threads :
        (Called(t) /\ call[t].op \in {"create", "replace", "delete"})
        => /\ \A j \in Keys \ {call[t].key} :
                 /\ Contains(CurStore(call[t]), j) <=> Contains(PreStore(call[t]), j)
                 /\ Contains(CurStore(call[t]), j)
                    => GetItem(CurStore(call[t]), j) = GetItem(PreStore(call[t]), j)
           /\ (resp[t].exc = "" /\ call[t].op \in {"create", "replace"})
              => /\ Cardinality({i \in 1..Len(CurStore(call[t])) :
                                   CurStore(call[t])[i][1] = call[t].key}) = 1
                 /\ GetItem(CurStore(call[t]), call[t].key) = call[t].value

\* C20 witness: a replace of a present key has returned on a store that
\* holds another key, and that key still holds its value.
C20_Witness ==
    \E t \in Threads : \E j \in Keys \ {call[t].key} :
        /\ Called(t) /\ call[t].op = "replace" /\ resp[t].exc = ""
        /\ Contains(PreStore(call[t]), call[t].key)
        /\ GetItem(PreStore(call[t]), call[t].key) # call[t].value
        /\ Contains(PreStore(call[t]), j)
        /\ Contains(CurStore(call[t]), j)

\* thread t is running or has finished a get on the LocalDiskKvStore
DiskGet(t) == call[t].backend = "local_disk" /\ call[t].op = "get"

\* C21: a get on LocalDiskKvStore that has returned or raised KeyError
\* leaves kv_file holding the dict it held when the call was made; a get
\* that returns does so only after lines 141-142 have opened the file with
\* 'wb', which empties it, and dumped to it the dict just read.
C21_GetRewrites ==
    /\ [](\A t \in Threads :
            DiskGet(t) =>
               /\ pc[t] = "done" => AsMap(CurStore(call[t])) = AsMap(PreStore(call[t]))
               /\ pc[t] = "disk_dump" => kv_file.data = <<>>
               /\ pc[t] = "disk_release"
                  => /\ local[t].kv_store = PreStore(call[t])
                     /\ kv_file.data = pickle_dump(local[t].kv_store))
    /\ [][\A t \in Threads :
            (DiskGet(t) /\ pc[t] # "done" /\ pc'[t] = "done" /\ resp'[t].exc = "")
            => pc[t] = "disk_release"]_vars

\* C21 witness: a get of a present key has emptied the file and is about
\* to dump the dict it read.
C21_Witness ==
    \E t \in Threads :
        /\ DiskGet(t) /\ pc[t] = "disk_dump"
        /\ Contains(PreStore(call[t]), call[t].key)
        /\ kv_file.data = <<>>
        /\ local[t].kv_store = PreStore(call[t])

\* the order in which a call goes through the statements of _safe_op: from
\* each statement to the next one, or out of the call
SafeOpOrder ==
    {<<"idle", "disk_acquire">>, <<"done", "disk_acquire">>,
     <<"disk_acquire", "disk_read">>,
     <<"disk_read", "disk_open_wb">>, <<"disk_read", "done">>,
     <<"disk_open_wb", "disk_dump">>, <<"disk_open_wb", "done">>,
     <<"disk_dump", "disk_release">>, <<"disk_dump", "done">>,
     <<"disk_release", "done">>}

\* C22: a call of a LocalDiskKvStore operation goes through _safe_op once,
\* forwards: it enters only when a caller makes a call, takes the lock
\* once, runs kv_op on the file once and opens and dumps the file at most
\* once, the file changing in no other step; and a step that fails ends
\* the call with the lock released and the exception handed to the caller.
C22_NoRetry ==
    [][/\ \A t \in Threads :
             /\ pc'[t] # pc[t] =>
                   /\ <<pc[t], pc'[t]>> \in SafeOpOrder
                   /\ pc'[t] = "disk_acquire" => ncalls' = ncalls + 1
                   /\ (pc[t] = "disk_acquire")
                      <=> (lock[instance[t]] = 0 /\ lock'[instance[t]] = t)
                   /\ (pc[t] \in {"disk_read", "disk_open_wb", "disk_dump"}
                         /\ pc'[t] = "done")
                      => /\ resp'[t].exc # ""
                         /\ lock'[instance[t]] = 0
             /\ pc'[t] = pc[t] =>
                   (lock[instance[t]] = t <=> lock'[instance[t]] = t)
       /\ kv_file' # kv_file =>
             \E u \in Threads : /\ pc[u] \in {"disk_open_wb", "disk_dump"}
                                /\ pc'[u] # pc[u]]_vars

\* C22 witness: a call has ended with the OSError of a dump that failed
\* part way, and the file is left as that one dump left it.
C22_Witness ==
    \E t \in Threads :
        /\ Called(t) /\ resp[t].exc = "OSError"
        /\ kv_file.data # <<>>
        /\ ~WellFormed(kv_file.data)
        /\ lock = Unlocked

\* the exceptions with which kv_operation answers a POST or PUT before it
\* calls the backend
Refusals == {"BadRequest", "ValidationError", "KeyError"}

\* C23: when a POST whose body carries a string, number or boolean "value"
\* has been answered, with the key created or with the create rejected
\* because the key was present, the key is in the store, and the GET of
\* that key that follows it is answered 200.
C23_PostThenGet ==
    \A t \in Threads :
        /\ (Called(t) /\ call[t].method = "POST" /\ ~LacksValue(call[t].body))
           => Contains(CurStore(call[t]), call[t].key)
        /\ (Called(t) /\ call[t].method = "GET"
              /\ call[t].before.op = "create"
              /\ call[t].before.key = call[t].key
              /\ call[t].before.exc \notin Refusals
              /\ ~call[t].before.fresh)
           => /\ resp[t].exc = ""
              /\ resp[t].http.http_status = 200
              /\ resp[t].http.value = GetItem(PreStore(call[t]), call[t].key)

\* C23 witness: a GET has been answered 200 with the value the key held,
\* right after a POST of another value to that key was rejected.
C23_Witness ==
    \E t \in Threads :
        /\ Called(t) /\ call[t].method = "GET"
        /\ call[t].before.op = "create"
        /\ call[t].before.key = call[t].key
        /\ call[t].before.exc \notin Refusals \cup {""}
        /\ ~call[t].before.fresh
        /\ resp[t].http.http_status = 200
        /\ resp[t].http.value # call[t].before.value

====
